---- MODULE Spec2Model ----
(***************************************************************************)
(* Authentication and credential lifecycle of natours: the user schema     *)
(* (models/userModel.js) and the auth controller (signup, login, protect,  *)
(* isLoggedIn, forgotPassword, resetPassword, updatePassword).             *)
(*                                                                         *)
(* Time is in milliseconds, as Date.now() returns it; JWT times are in     *)
(* whole seconds.  The clock advances in steps of TickMs and by one reset  *)
(* window at a time, so that both the one-second arithmetic of the         *)
(* password-changed timestamp and the expiry of reset tokens and JWTs are  *)
(* exercised with the program's own constants.                             *)
(***************************************************************************)
EXTENDS Integers, Sequences, FiniteSets, TLC

\* ---------------------------------------------------------------- bounds
MaxTicks == 1
MaxSleeps == 1
MaxSecrets == 1
MaxRequests == 2
TickMs == 1000
StartTime == 10500

\* ------------------------------------------------------ program constants
SecondMs == 1000
PasswordChangedSlackMs == 1000
PasswordResetWindowMs == 10 * 60 * 1000
PasswordMinLength == 8
JWT_EXPIRES_IN == 601

\* ------------------------------------------------------------ input sets
Emails == {"a@x.com"}
EmailInputs == Emails \cup {"b@x.com", ""}
Passwords == {"longpass1", "newpass123"}
PasswordInputs == Passwords \cup {"short"}
\* password and confirmation as a request carries them: valid pairs, a
\* password below the minimum length, a confirmation that differs
PasswordForms ==
    {[password |-> p, passwordConfirm |-> p] : p \in PasswordInputs}
    \cup {[password |-> "longpass1", passwordConfirm |-> "longpass2"]}
\* the body of a signup request: valid ones, a missing name, a bad email
SignupForms ==
    {[name |-> "Ana", email |-> e, password |-> f.password,
      passwordConfirm |-> f.passwordConfirm] :
        e \in Emails, f \in PasswordForms}
    \cup {[name |-> "", email |-> "a@x.com", password |-> "longpass1",
           passwordConfirm |-> "longpass1"],
          [name |-> "Ana", email |-> "not-an-email",
           password |-> "longpass1", passwordConfirm |-> "longpass1"]}
Salts == {1}

undefined == -1
NoHash == <<>>
NoToken == [id |-> 0, iat |-> 0, exp |-> 0, sig |-> "none"]

\* ------------------------------------------------------- pure functions

\* validator.isEmail, on the inputs of the model
isEmail(e) == e \in {"a@x.com", "b@x.com"}

\* bcrypt.hash(password, 12): a salted digest, never the plaintext
bcryptHash(password, salt) == <<"bcrypt", salt, password>>

\* a comparison whose result does not depend on the candidate
isCorrectPasswordAny(candidatePassword, userPassword) ==
    /\ Len(userPassword) = 3
    /\ userPassword[1] = "bcrypt"

\* bcrypt.compare(candidate, digest)
isCorrectPassword(candidatePassword, userPassword) ==
    /\ Len(userPassword) = 3
    /\ userPassword[1] = "bcrypt"
    /\ userPassword[3] = candidatePassword

\* crypto.createHash('sha256').update(token).digest('hex')
sha256(token) == <<"sha256", token>>

\* jwt.sign({ id }, secret, { expiresIn }) at time t (ms)
signToken(id, t) ==
    [id |-> id, iat |-> t \div SecondMs,
     exp |-> (t \div SecondMs) + JWT_EXPIRES_IN, sig |-> "ok"]

\* a token whose signature does not verify against JWT_SECRET
Tamper(tok) == [tok EXCEPT !.sig = "bad"]

\* jwt.verify(token, secret) at time t (ms)
jwtVerify(token, t) ==
    IF token.sig # "ok" THEN "JsonWebTokenError"
    ELSE IF (t \div SecondMs) >= token.exp THEN "TokenExpiredError"
    ELSE "ok"

\* a check that never reports a change
hasPasswordChangedAfterNever(user, JWTTimestamp) == FALSE

\* userSchema.methods.hasPasswordChangedAfter
hasPasswordChangedAfter(user, JWTTimestamp) ==
    IF user.passwordChangedAt # undefined
    THEN JWTTimestamp < (user.passwordChangedAt \div SecondMs)
    ELSE FALSE

\* schema validation of password and passwordConfirm on save
validPassword(password, passwordConfirm) ==
    /\ Len(password) >= PasswordMinLength
    /\ passwordConfirm = password

\* ----------------------------------------------------------------- state
VARIABLES
    users,        \* the users collection, indexed by _id
    now,          \* Date.now()
    held,         \* the JWT a client holds, among those minted so far
    nextSecret,   \* the next value crypto.randomBytes(32) returns
    issued,       \* history: the last reset secret generated
    resp,         \* the response of the last request
    revoked,      \* history: held was minted before a password change
    resetCount,   \* history: successful resets, per secret
    resets,       \* resetPassword requests between findOne and save
    mails         \* forgotPassword requests between save and send

vars == <<users, now, held, nextSecret, issued, resp, revoked,
          resetCount, resets, mails>>

Secrets == 1..MaxSecrets
NoSecret == [secret |-> 0, at |-> 0, user |-> 0, sent |-> FALSE]

NoResp == [op |-> "none", kind |-> "none", status |-> 0, message |-> "",
           token |-> NoToken, cookie |-> NoToken, user |-> 0,
           nextCalls |-> 0, arg |-> 0]

\* res.status(code).json(...)
Json(op, status, message, arg) ==
    [op |-> op, kind |-> "json", status |-> status, message |-> message,
     token |-> NoToken, cookie |-> NoToken, user |-> 0,
     nextCalls |-> 0, arg |-> arg]

\* next(err): status is err.statusCode, 0 when the error carries none
NextErr(op, status, message, arg) ==
    [op |-> op, kind |-> "error", status |-> status, message |-> message,
     token |-> NoToken, cookie |-> NoToken, user |-> 0,
     nextCalls |-> 1, arg |-> arg]

\* next(): control passes downstream, user is the identity attached
NextOk(op, user, arg) ==
    [op |-> op, kind |-> "next", status |-> 0, message |-> "",
     token |-> NoToken, cookie |-> NoToken, user |-> user,
     nextCalls |-> 1, arg |-> arg]

\* createSendToken(user, statusCode, res) at time t
createSendToken(op, id, statusCode, t, arg) ==
    [op |-> op, kind |-> "json", status |-> statusCode,
     message |-> "success", token |-> signToken(id, t),
     cookie |-> signToken(id, t), user |-> 0, nextCalls |-> 0, arg |-> arg]

\* a query filter that lets every account through
activeFilterAll(doc) == TRUE

\* userSchema.pre(/^find/): only active accounts are found
activeFilter(doc) == doc.active # FALSE

\* User.findOne({ email }) on collection coll
findOneByEmail(coll, email) ==
    LET m == {i \in DOMAIN coll :
                coll[i].email = email /\ activeFilter(coll[i])}
    IN IF m = {} THEN 0 ELSE CHOOSE i \in m : TRUE

\* User.findById(id)
findById(coll, id) ==
    IF id \in DOMAIN coll /\ activeFilter(coll[id]) THEN id ELSE 0

\* User.findOne({ passwordResetToken, passwordResetExpires: { $gt: t } })
findOneByResetToken(coll, hashedToken, t) ==
    LET m == {i \in DOMAIN coll :
                /\ coll[i].passwordResetToken = hashedToken
                /\ coll[i].passwordResetExpires > t
                /\ activeFilter(coll[i])}
    IN IF m = {} THEN 0 ELSE CHOOSE i \in m : TRUE

\* hooks that date the change one second after the save
preSaveLate(doc, isNew, salt, t) ==
    [doc EXCEPT !.password = bcryptHash(doc.password, salt),
                !.passwordChangedAt =
                    IF isNew THEN @ ELSE t + PasswordChangedSlackMs]

\* the two pre('save') hooks, for a document whose password was modified
preSave(doc, isNew, salt, t) ==
    [doc EXCEPT !.password = bcryptHash(doc.password, salt),
                !.passwordChangedAt =
                    IF isNew THEN @ ELSE t - PasswordChangedSlackMs]

\* a method that stores the hash and leaves the expiry as it was
createPasswordResetTokenNoExpiry(doc, resetToken, t) ==
    [doc EXCEPT !.passwordResetToken = sha256(resetToken)]

\* userSchema.methods.createPasswordResetToken at time t
createPasswordResetToken(doc, resetToken, t) ==
    [doc EXCEPT !.passwordResetToken = sha256(resetToken),
                !.passwordResetExpires = t + PasswordResetWindowMs]

\* what a client can present: the JWT it holds, a tampered copy, nothing
Presentable == {held, Tamper(held), NoToken}

\* the client keeps the JWT it holds or takes the one response r carries;
\* id is the identity whose password r changed, 0 when it changed none
Client(r, id) ==
    \E keep \in IF r.token = NoToken THEN {TRUE} ELSE BOOLEAN :
        LET take == r.token # NoToken /\ ~keep
        IN  /\ held' = IF take THEN r.token ELSE held
            /\ revoked' = IF take THEN FALSE
                          ELSE IF r.status = 200 /\ id # 0 /\ held.id = id
                          THEN TRUE
                          ELSE revoked

TypeOK ==
    /\ Len(users) <= Cardinality(Emails)
    /\ now >= StartTime
    /\ nextSecret \in 1..(MaxSecrets + 1)
    /\ revoked \in BOOLEAN
    /\ \A q \in mails : q.user \in DOMAIN users /\ q.secret \in Secrets

Init ==
    /\ users = <<>>
    /\ now = StartTime
    /\ held = NoToken
    /\ nextSecret = 1
    /\ issued = NoSecret
    /\ resp = NoResp
    /\ revoked = FALSE
    /\ resetCount = [s \in Secrets |-> 0]
    /\ resets = {}
    /\ mails = {}

\* ----------------------------------------------------------------- clock
ticks == ((now - StartTime) % PasswordResetWindowMs) \div TickMs
sleeps == (now - StartTime) \div PasswordResetWindowMs

Tick ==
    /\ ticks < MaxTicks
    /\ now' = now + TickMs
    /\ UNCHANGED <<users, held, nextSecret, issued, resp, revoked,
                   resetCount, resets, mails>>

Sleep ==
    /\ sleeps < MaxSleeps
    /\ now' = now + PasswordResetWindowMs
    /\ UNCHANGED <<users, held, nextSecret, issued, resp, revoked,
                   resetCount, resets, mails>>

\* ---------------------------------------------------------------- signup
\* schema validation run by User.create
validSignup(name, email, password, passwordConfirm) ==
    /\ name # ""
    /\ email # ""
    /\ isEmail(email)
    /\ validPassword(password, passwordConfirm)

\* the unique index on email (it covers inactive accounts too)
emailTaken(coll, email) == \E i \in DOMAIN coll : coll[i].email = email

newUser(email, password) ==
    [email |-> email, password |-> password, passwordChangedAt |-> undefined,
     passwordResetToken |-> NoHash, passwordResetExpires |-> undefined,
     active |-> TRUE]

\* catchAsync: func(req, res, next).catch(next); threw is the error the
\* async function rejected with, "" when it returned normally
catchAsync(op, threw, r, arg) ==
    IF threw = "" THEN r ELSE NextErr(op, 0, threw, arg)

\* line 51: await new Email(newUser, url).sendWelcome()
sendWelcome(welcomeOk) == IF welcomeOk THEN "" ELSE "EmailError"

\* exports.signup
signupResult(coll, name, email, password, passwordConfirm, salt, welcomeOk, t) ==
    LET id == Len(coll) + 1
    IN  IF ~validSignup(name, email, password, passwordConfirm)
        THEN [users |-> coll,
              resp |-> catchAsync("signup", "ValidationError", NoResp, 0)]
        ELSE IF emailTaken(coll, email)
        THEN [users |-> coll,
              resp |-> catchAsync("signup", "MongoError E11000", NoResp, 0)]
        ELSE [users |-> Append(coll,
                          preSave(newUser(email, password), TRUE, salt, t)),
              resp |-> catchAsync("signup", sendWelcome(welcomeOk),
                          createSendToken("signup", id, 201, t, id), id)]

Signup(name, email, password, passwordConfirm, salt, welcomeOk) ==
    LET r == signupResult(users, name, email, password, passwordConfirm,
                          salt, welcomeOk, now)
    IN  /\ users' = r.users
        /\ resp' = r.resp
        /\ Client(r.resp, 0)
        /\ UNCHANGED <<now, nextSecret, issued, resetCount, resets, mails>>

\* ----------------------------------------------------------------- login
\* a login that tells an unknown email from a wrong password
loginResultEnumerates(coll, email, password, t) ==
    LET user == findOneByEmail(coll, email)
    IN  IF email = "" \/ password = ""
        THEN NextErr("login", 0, "Please provide an email and password", 0)
        ELSE IF user = 0
        THEN NextErr("login", 404, "There is no user with this email.", user)
        ELSE IF ~isCorrectPassword(password, coll[user].password)
        THEN NextErr("login", 401, "Incorrect email or password.", user)
        ELSE createSendToken("login", user, 200, t, user)

loginResult(coll, email, password, t) ==
    LET user == findOneByEmail(coll, email)
    IN  IF email = "" \/ password = ""
        THEN NextErr("login", 0, "Please provide an email and password", 0)
        ELSE IF user = 0
                \/ ~isCorrectPassword(password, coll[user].password)
        THEN NextErr("login", 401, "Incorrect email or password.", user)
        ELSE createSendToken("login", user, 200, t, user)

Login(email, password) ==
    LET r == loginResult(users, email, password, now)
    IN  /\ resp' = r
        /\ Client(r, 0)
        /\ UNCHANGED <<users, now, nextSecret, issued, resetCount, resets,
                       mails>>

\* --------------------------------------------------------------- protect
\* lines 83-91: the bearer header wins over the cookie
extractToken(bearer, headerToken, cookie) ==
    IF bearer THEN headerToken
    ELSE IF cookie # NoToken THEN cookie
    ELSE NoToken

protectResult(coll, bearer, headerToken, cookie, t) ==
    LET token == extractToken(bearer, headerToken, cookie)
        verdict == jwtVerify(token, t)
        user == findById(coll, token.id)
    IN  IF token = NoToken
        THEN NextErr("protect", 401,
                     "User not logged in! Please log in to get access.", 0)
        ELSE IF verdict # "ok"
        THEN catchAsync("protect", verdict, NoResp, 0)
        ELSE IF user = 0
        THEN NextErr("protect", 401,
               "The user belonging to this token does not longer exist", 0)
        ELSE IF hasPasswordChangedAfter(coll[user], token.iat)
        THEN NextErr("protect", 401,
               "User recenlty changed password. Please log in again.", 0)
        ELSE NextOk("protect", user, 0)

Protect(bearer, headerToken, cookie) ==
    /\ resp' = protectResult(users, bearer, headerToken, cookie, now)
    /\ UNCHANGED <<users, now, held, nextSecret, issued, revoked,
                   resetCount, resets, mails>>

\* ------------------------------------------------------------ isLoggedIn
\* a catch block that forwards the error
isLoggedInCatchForwards(err) == NextErr("isLoggedIn", 0, err, 1)

\* lines 159-161: catch (err) { return next(); }; arg 1 marks this path
isLoggedInCatch(err) == NextOk("isLoggedIn", 0, 1)

isLoggedInResult(coll, cookie, storeFails, t) ==
    LET verdict == jwtVerify(cookie, t)
        user == findById(coll, cookie.id)
    IN  IF cookie = NoToken THEN NextOk("isLoggedIn", 0, 0)
        ELSE IF verdict # "ok" THEN isLoggedInCatch(verdict)
        ELSE IF storeFails THEN isLoggedInCatch("MongoError")
        ELSE IF user = 0 THEN NextOk("isLoggedIn", 0, 0)
        ELSE IF hasPasswordChangedAfter(coll[user], cookie.iat)
        THEN NextOk("isLoggedIn", 0, 0)
        ELSE NextOk("isLoggedIn", user, 0)

IsLoggedIn(cookie, storeFails) ==
    /\ resp' = isLoggedInResult(users, cookie, storeFails, now)
    /\ UNCHANGED <<users, now, held, nextSecret, issued, revoked,
                   resetCount, resets, mails>>

\* -------------------------------------------------------- forgotPassword
\* a catch block that leaves the stored reset fields in place
clearResetFieldsSkipped(doc) == doc

\* lines 226-227 of the catch block: both reset fields are unset
clearResetFields(doc) ==
    [doc EXCEPT !.passwordResetToken = NoHash,
                !.passwordResetExpires = undefined]

forgotPasswordResult(coll, email, sendOk, resetToken, t) ==
    LET user == findOneByEmail(coll, email)
    IN  IF user = 0
        THEN [users |-> coll, secret |-> 0,
              resp |-> NextErr("forgotPassword", 404,
                 "There is no user with the provided email address.", 0)]
        ELSE LET saved == [coll EXCEPT ![user] =
                             createPasswordResetToken(@, resetToken, t)]
             IN IF sendOk
                THEN [users |-> saved, secret |-> resetToken,
                      resp |-> Json("forgotPassword", 200,
                                    "Token sent to user email.", user)]
                ELSE [users |-> [saved EXCEPT ![user] = clearResetFields(@)],
                      secret |-> resetToken,
                      resp |-> NextErr("forgotPassword", 500,
                        "There was an error sending the email. Try again later.",
                        user)]

ForgotPassword(email, sendOk) ==
    LET r == forgotPasswordResult(users, email, sendOk, nextSecret, now)
    IN  /\ nextSecret <= MaxSecrets
        /\ users' = r.users
        /\ resp' = r.resp
        /\ nextSecret' = IF r.secret = 0 THEN nextSecret ELSE nextSecret + 1
        /\ issued' = IF r.secret = 0 THEN issued
                     ELSE [secret |-> r.secret, at |-> now,
                           user |-> r.resp.arg, sent |-> sendOk]
        /\ UNCHANGED <<now, held, revoked, resetCount, resets, mails>>

\* the handler up to and including the first "await user.save(...)" of
\* line 213: the hash and the expiry are persisted, the mail is not sent yet
ForgotPasswordSave(email) ==
    LET r == forgotPasswordResult(users, email, TRUE, nextSecret, now)
    IN  /\ nextSecret <= MaxSecrets
        /\ Cardinality(mails) < MaxRequests
        /\ users' = r.users
        /\ IF r.secret = 0
           THEN /\ resp' = r.resp
                /\ UNCHANGED <<nextSecret, mails>>
           ELSE /\ resp' = resp
                /\ nextSecret' = nextSecret + 1
                /\ mails' = mails \cup
                     {[user |-> r.resp.arg, secret |-> r.secret, at |-> now]}
        /\ UNCHANGED <<now, held, issued, revoked, resetCount, resets>>

\* the rest of the handler, from line 216: the mail is sent, or the catch
\* block unsets both reset fields of the document and saves it
ForgotPasswordSend(q, sendOk) ==
    /\ q \in mails
    /\ mails' = mails \ {q}
    /\ users' = IF sendOk THEN users
                ELSE [users EXCEPT ![q.user] = clearResetFields(@)]
    /\ resp' = IF sendOk
               THEN Json("forgotPassword", 200, "Token sent to user email.",
                         q.user)
               ELSE NextErr("forgotPassword", 500,
                      "There was an error sending the email. Try again later.",
                      q.user)
    /\ issued' = [secret |-> q.secret, at |-> q.at, user |-> q.user,
                  sent |-> sendOk]
    /\ UNCHANGED <<now, held, nextSecret, revoked, resetCount, resets>>

\* --------------------------------------------------------- resetPassword
\* a reset that does not clear the stored hash and expiry
resetFieldsKeepsToken(doc, password) == [doc EXCEPT !.password = password]

\* lines 256-259: the fields resetPassword assigns before user.save()
resetFields(doc, password) ==
    [doc EXCEPT !.password = password,
                !.passwordResetToken = NoHash,
                !.passwordResetExpires = undefined]

\* lines 256-265 on document id: validation, the pre-save hooks, a write of
\* the modified paths, createSendToken
resetSave(coll, id, token, password, passwordConfirm, salt, t) ==
    IF ~validPassword(password, passwordConfirm)
    THEN [users |-> coll,
          resp |-> catchAsync("resetPassword", "ValidationError", NoResp,
                              token)]
    ELSE [users |-> [coll EXCEPT ![id] =
                       preSave(resetFields(@, password), FALSE, salt, t)],
          resp |-> createSendToken("resetPassword", id, 200, t, token)]

resetPasswordResult(coll, token, password, passwordConfirm, salt, t) ==
    LET user == findOneByResetToken(coll, sha256(token), t)
    IN  IF user = 0
        THEN [users |-> coll,
              resp |-> NextErr("resetPassword", 400,
                               "Token is invalid or has expired.", token)]
        ELSE resetSave(coll, user, token, password, passwordConfirm, salt, t)

\* history kept when a reset with secret token is saved
Changed(r, token) ==
    /\ resetCount' = IF r.resp.status = 200 /\ token # 0
                     THEN [resetCount EXCEPT ![token] = @ + 1]
                     ELSE resetCount

\* the whole handler, when no other request runs between its awaits
ResetPassword(token, password, passwordConfirm, salt) ==
    LET r == resetPasswordResult(users, token, password, passwordConfirm,
                                 salt, now)
    IN  /\ users' = r.users
        /\ resp' = r.resp
        /\ Client(r.resp, r.resp.token.id)
        /\ Changed(r, token)
        /\ UNCHANGED <<now, nextSecret, issued, resets, mails>>

\* the handler up to and including "await User.findOne(...)" of line 246
ResetPasswordFind(token, password, passwordConfirm) ==
    LET user == findOneByResetToken(users, sha256(token), now)
    IN  /\ Cardinality(resets) < MaxRequests
        /\ IF user = 0
           THEN /\ resp' = resetPasswordResult(users, token, password,
                                               passwordConfirm, 1, now).resp
                /\ resets' = resets
           ELSE /\ resp' = resp
                /\ resets' = resets \cup
                     {[user |-> user, token |-> token, password |-> password,
                       passwordConfirm |-> passwordConfirm]}
        /\ UNCHANGED <<users, now, held, nextSecret, issued, revoked,
                       resetCount, mails>>

\* the rest of the handler, from line 256, for a request that found its user
ResetPasswordSave(q, salt) ==
    LET r == resetSave(users, q.user, q.token, q.password, q.passwordConfirm,
                       salt, now)
    IN  /\ q \in resets
        /\ resets' = resets \ {q}
        /\ users' = r.users
        /\ resp' = r.resp
        /\ Client(r.resp, q.user)
        /\ Changed(r, q.token)
        /\ UNCHANGED <<now, nextSecret, issued, mails>>

\* -------------------------------------------------------- updatePassword
\* an update that does not verify the current password
updatePasswordResultUnchecked(coll, id, passwordCurrent, password, passwordConfirm, salt, t) ==
    IF ~validPassword(password, passwordConfirm)
    THEN [users |-> coll,
          resp |-> catchAsync("updatePassword", "ValidationError", NoResp,
                              id)]
    ELSE [users |-> [coll EXCEPT ![id] =
             preSave([@ EXCEPT !.password = password], FALSE, salt, t)],
          resp |-> createSendToken("updatePassword", id, 200, t, id)]

updatePasswordResult(coll, id, passwordCurrent, password, passwordConfirm, salt, t) ==
    IF ~isCorrectPassword(passwordCurrent, coll[id].password)
    THEN [users |-> coll,
          resp |-> NextErr("updatePassword", 401, "Incorrect password.", id)]
    ELSE IF ~validPassword(password, passwordConfirm)
    THEN [users |-> coll,
          resp |-> catchAsync("updatePassword", "ValidationError", NoResp,
                              id)]
    ELSE [users |-> [coll EXCEPT ![id] =
             preSave([@ EXCEPT !.password = password], FALSE, salt, t)],
          resp |-> createSendToken("updatePassword", id, 200, t, id)]

\* the route: protect, then updatePassword with req.user set by protect
UpdatePassword(headerToken, passwordCurrent, password, passwordConfirm, salt) ==
    LET gate == protectResult(users, TRUE, headerToken, NoToken, now)
        r == IF gate.kind = "next"
             THEN updatePasswordResult(users, gate.user, passwordCurrent,
                                       password, passwordConfirm, salt, now)
             ELSE [users |-> users, resp |-> gate]
    IN  /\ users' = r.users
        /\ resp' = r.resp
        /\ Client(r.resp, gate.user)
        /\ UNCHANGED <<now, nextSecret, issued, resetCount, resets, mails>>

\* -------------------------------------------------------------- deleteMe
\* soft delete: the account's active flag is set to false
deleteMeResult(coll, id) ==
    [users |-> [coll EXCEPT ![id].active = FALSE],
     resp |-> Json("deleteMe", 204, "success", id)]

DeleteMe(headerToken) ==
    LET gate == protectResult(users, TRUE, headerToken, NoToken, now)
        r == IF gate.kind = "next" THEN deleteMeResult(users, gate.user)
             ELSE [users |-> users, resp |-> gate]
    IN  /\ users' = r.users
        /\ resp' = r.resp
        /\ UNCHANGED <<now, held, nextSecret, issued, revoked,
                       resetCount, resets, mails>>

\* ------------------------------------------------------- specifications
Requests ==
    \/ \E f \in SignupForms, salt \in Salts, welcomeOk \in BOOLEAN :
            Signup(f.name, f.email, f.password, f.passwordConfirm, salt,
                   welcomeOk)
    \/ \E email \in EmailInputs, password \in PasswordInputs \cup {""} :
            Login(email, password)
    \/ \E bearer \in BOOLEAN, headerToken \in Presentable,
          cookie \in {held, NoToken} :
            Protect(bearer, headerToken, cookie)
    \/ \E cookie \in Presentable, storeFails \in BOOLEAN :
            IsLoggedIn(cookie, storeFails)
    \/ \E email \in EmailInputs, sendOk \in BOOLEAN :
            ForgotPassword(email, sendOk)
    \/ \E headerToken \in {held, NoToken}, passwordCurrent \in Passwords,
          f \in PasswordForms, salt \in Salts :
            UpdatePassword(headerToken, passwordCurrent, f.password,
                           f.passwordConfirm, salt)
    \/ \E headerToken \in {held, NoToken} : DeleteMe(headerToken)
    \/ Tick
    \/ Sleep

\* requests handled one after the other
Next ==
    \/ Requests
    \/ \E token \in Secrets, f \in PasswordForms, salt \in Salts :
            ResetPassword(token, f.password, f.passwordConfirm, salt)

Spec == Init /\ [][Next]_vars

\* resetPassword requests interleave at their awaits
NextConcurrent ==
    \/ \E f \in SignupForms, salt \in Salts, welcomeOk \in BOOLEAN :
            Signup(f.name, f.email, f.password, f.passwordConfirm, salt,
                   welcomeOk)
    \/ \E email \in EmailInputs, password \in PasswordInputs \cup {""} :
            Login(email, password)
    \/ \E email \in EmailInputs, sendOk \in BOOLEAN :
            ForgotPassword(email, sendOk)
    \/ Tick
    \/ Sleep
    \/ \E token \in Secrets, f \in PasswordForms :
            ResetPasswordFind(token, f.password, f.passwordConfirm)
    \/ \E q \in resets, salt \in Salts : ResetPasswordSave(q, salt)

SpecConcurrent == Init /\ [][NextConcurrent]_vars

\* every store write is a step: forgotPassword and resetPassword interleave
\* with each other and with signup and updatePassword at their awaits
NextSaves ==
    \/ \E f \in SignupForms, salt \in Salts, welcomeOk \in BOOLEAN :
            Signup(f.name, f.email, f.password, f.passwordConfirm, salt,
                   welcomeOk)
    \/ \E email \in EmailInputs : ForgotPasswordSave(email)
    \/ \E q \in mails, sendOk \in BOOLEAN : ForgotPasswordSend(q, sendOk)
    \/ \E token \in Secrets, f \in PasswordForms :
            ResetPasswordFind(token, f.password, f.passwordConfirm)
    \/ \E q \in resets, salt \in Salts : ResetPasswordSave(q, salt)
    \/ \E headerToken \in {held, NoToken}, passwordCurrent \in Passwords,
          f \in PasswordForms, salt \in Salts :
            UpdatePassword(headerToken, passwordCurrent, f.password,
                           f.passwordConfirm, salt)
    \/ Tick
    \/ Sleep

SpecSaves == Init /\ [][NextSaves]_vars

\* ================================================================ claims

\* the token a request to protect presents, read off the request
Presented(bearer, headerToken, cookie) ==
    IF bearer THEN headerToken ELSE cookie

\* the checks of the auth gate, stated on the stored document
SignatureOk(tok) == tok.sig = "ok"
NotExpired(tok) == now \div 1000 < tok.exp
Resolves(tok) == tok.id \in DOMAIN users /\ users[tok.id].active
NotChangedSince(tok) ==
    \/ users[tok.id].passwordChangedAt = undefined
    \/ users[tok.id].passwordChangedAt \div 1000 <= tok.iat
AllChecks(tok) ==
    /\ tok # NoToken
    /\ SignatureOk(tok)
    /\ NotExpired(tok)
    /\ Resolves(tok)
    /\ NotChangedSince(tok)

\* the plaintext a stored digest was computed from
PlainOf(digest) == digest[3]

\* C1: every token minted for an identity before a successful password
\* change of that identity is rejected by protect from then on, whatever
\* the time between the minting and the change.
C1_TokensBeforeChangeRejected ==
    revoked =>
        LET r == protectResult(users, TRUE, held, NoToken, now)
        IN r.kind = "error" /\ r.user = 0

\* a forgotPassword secret that was delivered, never used, is the last one
\* generated and is still inside its window, for an active identity
Usable(s) ==
    /\ issued.secret = s
    /\ issued.sent
    /\ resetCount[s] = 0
    /\ now - issued.at < 10 * 60 * 1000
    /\ users[issued.user].active

\* C2: a delivered reset secret, used within its window with a valid
\* password and confirmation, resets the password; every later
\* resetPassword with the same secret fails with 400 'Token is invalid or
\* has expired.' and changes nothing, so a secret gives one reset only.
C2_ResetSecretOnce ==
    /\ \A s \in Secrets : resetCount[s] <= 1
    /\ \A s \in Secrets, f \in PasswordForms, salt \in Salts :
         LET r == resetPasswordResult(users, s, f.password,
                                      f.passwordConfirm, salt, now)
         IN  /\ resetCount[s] >= 1 =>
                  /\ r.resp.kind = "error"
                  /\ r.resp.status = 400
                  /\ r.resp.message = "Token is invalid or has expired."
                  /\ r.resp.token = NoToken
                  /\ r.users = users
             /\ ( /\ Usable(s)
                  /\ Len(f.password) >= 8
                  /\ f.passwordConfirm = f.password ) =>
                  /\ r.resp.status = 200
                  /\ r.resp.token # NoToken
                  /\ PlainOf(r.users[issued.user].password) = f.password

C2_Witness ==
    /\ resp.op = "resetPassword"
    /\ resp.status = 400
    /\ resp.arg = issued.secret
    /\ issued.sent
    /\ resetCount[resp.arg] = 1

\* C3: a login with a registered email and a wrong password and a login
\* with an unregistered email end with the same status and the same
\* message (401 'Incorrect email or password.'), and neither mints a token
\* or sets the cookie.
C3_LoginFailuresAlike ==
    \A e1 \in EmailInputs \ {""}, e2 \in EmailInputs \ {""},
       p1 \in PasswordInputs, p2 \in PasswordInputs :
        ( /\ \E i \in DOMAIN users :
               users[i].email = e1 /\ PlainOf(users[i].password) # p1
          /\ \A i \in DOMAIN users : users[i].email # e2 ) =>
            LET r1 == loginResult(users, e1, p1, now)
                r2 == loginResult(users, e2, p2, now)
            IN  /\ r1.kind = "error" /\ r2.kind = "error"
                /\ r1.status = r2.status
                /\ r1.message = r2.message
                /\ r1.status = 401
                /\ r1.message = "Incorrect email or password."
                /\ r1.token = NoToken /\ r2.token = NoToken
                /\ r1.cookie = NoToken /\ r2.cookie = NoToken

C3_Witness ==
    /\ resp.op = "login"
    /\ resp.status = 401
    /\ resp.arg # 0
    /\ resp.token = NoToken

\* C4: when forgotPassword finds the identity and the notification cannot
\* be sent, the request ends with 500 'There was an error sending the
\* email...', the stored reset hash and expiry are both absent, and no
\* secret resets that identity's password.
C4_SendFailureClearsReset ==
    \A e \in EmailInputs :
        \A i \in DOMAIN users :
            (users[i].email = e /\ users[i].active) =>
              LET r == forgotPasswordResult(users, e, FALSE, nextSecret, now)
              IN  /\ r.resp.kind = "error"
                  /\ r.resp.status = 500
                  /\ r.resp.message =
                       "There was an error sending the email. Try again later."
                  /\ r.users[i].passwordResetToken = NoHash
                  /\ r.users[i].passwordResetExpires = undefined
                  /\ \A s \in Secrets \cup {nextSecret}, f \in PasswordForms,
                        salt \in Salts :
                       LET q == resetPasswordResult(r.users, s, f.password,
                                   f.passwordConfirm, salt, now)
                       IN q.resp.status = 400 /\ q.users = r.users

C4_Witness ==
    /\ resp.op = "forgotPassword"
    /\ resp.status = 500
    /\ resp.arg # 0
    /\ ~issued.sent
    /\ users[resp.arg].passwordResetToken = NoHash
    /\ users[resp.arg].passwordResetExpires = undefined

\* C5: whenever signup persists the identity, the response is the 201
\* success response with a freshly minted token in body and cookie,
\* whether or not the welcome notification fails.
C5_WelcomeFailureDoesNotAbort ==
    (resp.op = "signup" /\ resp.arg # 0) =>
        /\ resp.kind = "json"
        /\ resp.status = 201
        /\ resp.token # NoToken
        /\ resp.cookie = resp.token

C8_ResetThenLogin ==
    \A s \in Secrets, f \in PasswordForms, salt \in Salts :
        LET r == resetPasswordResult(users, s, f.password, f.passwordConfirm,
                                     salt, now)
        IN  r.resp.status = 200 =>
              LET id == issued.user
                  old == PlainOf(users[id].password)
                  newLogin == loginResult(r.users, users[id].email, f.password, now)
              IN  /\ issued.secret = s /\ issued.sent
                  /\ newLogin.status = 200 /\ newLogin.token.id = id
                  /\ \A p \in PasswordInputs \cup {old} :
                       p # f.password =>
                         LET out == loginResult(r.users, users[id].email, p,
                                                now)
                         IN /\ out.status = 401
                            /\ out.message = "Incorrect email or password."
                            /\ out.token = NoToken
                  /\ r.users[id].passwordResetToken = NoHash
                  /\ r.users[id].passwordResetExpires = undefined
                  /\ r.resp.token.id = id
                  /\ r.resp.token.iat = now \div 1000
                  /\ r.resp.token.sig = "ok"

C8_Witness ==
    /\ resp.op = "resetPassword"
    /\ resp.status = 200
    /\ resp.arg = issued.secret
    /\ issued.sent
    /\ loginResult(users, "a@x.com", "newpass123", now).status = 200
    /\ loginResult(users, "a@x.com", "longpass1", now).status = 401

\* C9: updatePassword changes the password only when the supplied current
\* password is the stored one; otherwise it ends with 401 'Incorrect
\* password.', mints no token and leaves the stored hash and the
\* password-changed timestamp as they were.
C9_UpdateNeedsCurrentPassword ==
    \A id \in DOMAIN users, cur \in PasswordInputs, f \in PasswordForms,
       salt \in Salts :
        LET r == updatePasswordResult(users, id, cur, f.password,
                                      f.passwordConfirm, salt, now)
        IN  /\ cur # PlainOf(users[id].password) =>
                 /\ r.resp.kind = "error"
                 /\ r.resp.status = 401
                 /\ r.resp.message = "Incorrect password."
                 /\ r.resp.token = NoToken /\ r.resp.cookie = NoToken
                 /\ r.users[id].password = users[id].password
                 /\ r.users[id].passwordChangedAt = users[id].passwordChangedAt
                 /\ r.users = users
            /\ r.users # users => cur = PlainOf(users[id].password)

C9_Witness ==
    /\ resp.op = "updatePassword"
    /\ resp.status = 401
    /\ resp.message = "Incorrect password."
    /\ resp.arg # 0

\* C10: two resetPassword requests carrying the same secret never both
\* succeed, however the requests interleave.
C10_NoDoubleReset ==
    \A s \in Secrets : resetCount[s] <= 1

\* C11: in every persisted state reached through signup, forgotPassword,
\* resetPassword and updatePassword, each write of the store being a step,
\* an identity's stored reset-token hash and reset expiry are either both
\* set or both absent.
C11_ResetFieldsPaired ==
    \A id \in DOMAIN users :
        (users[id].passwordResetToken = NoHash)
            <=> (users[id].passwordResetExpires = undefined)

\* the pair is stored while its mail is still to be sent and a
\* resetPassword request has already found the document
C11_Witness ==
    /\ mails # {}
    /\ resets # {}
    /\ \E q \in mails :
          /\ users[q.user].passwordResetToken = sha256(q.secret)
          /\ users[q.user].passwordResetExpires = q.at + PasswordResetWindowMs

\* the token a password change returned passes the auth gate on the store
\* the change left, at the time of the change and one second later
KeepsItsToken(r) ==
    LET tok == r.resp.token
    IN  /\ tok # NoToken
        /\ r.users[tok.id].passwordChangedAt = now - PasswordChangedSlackMs
        /\ r.users[tok.id].passwordChangedAt \div SecondMs <= tok.iat
        /\ \A t \in {now, now + SecondMs} :
              LET gate == protectResult(r.users, TRUE, tok, NoToken, t)
              IN gate.kind = "next" /\ gate.user = tok.id

\* C12: the token minted by a successful resetPassword or updatePassword is
\* accepted by protect when presented right afterwards: the password-changed
\* timestamp written by that save (current time minus one second, compared
\* in whole seconds) is never later than the token's issued-at.
C12_ChangeKeepsItsToken ==
    /\ \A id \in DOMAIN users, cur \in Passwords, f \in PasswordForms,
          salt \in Salts :
          LET r == updatePasswordResult(users, id, cur, f.password,
                                        f.passwordConfirm, salt, now)
          IN (findById(users, id) # 0 /\ r.resp.status = 200)
                => KeepsItsToken(r)
    /\ \A token \in Secrets, f \in PasswordForms, salt \in Salts :
          LET r == resetPasswordResult(users, token, f.password,
                                       f.passwordConfirm, salt, now)
          IN r.resp.status = 200 => KeepsItsToken(r)
    /\ (resp.op \in {"resetPassword", "updatePassword"} /\ resp.status = 200)
          => resp.token.iat >=
               users[resp.token.id].passwordChangedAt \div SecondMs

\* an updatePassword succeeded for an identity that had reset its password
\* before, and the token it returned passes the auth gate
C12_Witness ==
    /\ resp.op = "updatePassword"
    /\ resp.status = 200
    /\ \E s \in Secrets : resetCount[s] = 1
    /\ users[resp.token.id].passwordChangedAt = now - PasswordChangedSlackMs
    /\ protectResult(users, TRUE, resp.token, NoToken, now).kind = "next"

\* the tokens identity id can hold: one for every time a token could have
\* been minted up to now, and tampered copies of them
IssuedTo(id) ==
    LET times == {StartTime + i * TickMs + j * PasswordResetWindowMs :
                    i \in 0..MaxTicks, j \in 0..MaxSleeps}
        minted == {signToken(id, t) : t \in {u \in times : u <= now}}
    IN  minted \cup {Tamper(tok) : tok \in minted}

\* the message of protect's error for a token whose user is not found
UserGone == "The user belonging to this token does not longer exist"

\* C13: an identity whose active flag is false cannot authenticate by any
\* path: login with its correct password fails with the generic credentials
\* error, protect rejects every token issued to it (an unexpired, correctly
\* signed one as belonging to a user that no longer exists), and
\* forgotPassword and resetPassword do not find it.
C13_InactiveCannotAuthenticate ==
    \A id \in DOMAIN users :
        users[id].active = FALSE =>
            /\ \A password \in PasswordInputs :
                  LET r == loginResult(users, users[id].email, password, now)
                  IN  /\ r.kind = "error" /\ r.status = 401
                      /\ r.message = "Incorrect email or password."
                      /\ r.token = NoToken /\ r.cookie = NoToken
            /\ \A tok \in IssuedTo(id), bearer \in BOOLEAN :
                  LET r == protectResult(users, bearer, tok, tok, now)
                      l == isLoggedInResult(users, tok, FALSE, now)
                  IN  /\ r.kind = "error" /\ r.user = 0
                      /\ jwtVerify(tok, now) = "ok" =>
                            /\ r.status = 401
                            /\ r.message = UserGone
                      /\ l.user = 0
            /\ \A sendOk \in BOOLEAN :
                  LET r == forgotPasswordResult(users, users[id].email, sendOk,
                                                nextSecret, now)
                  IN  /\ r.resp.kind = "error" /\ r.resp.status = 404
                      /\ r.secret = 0
                      /\ r.users = users
            /\ \A token \in Secrets, f \in PasswordForms, salt \in Salts :
                  LET r == resetPasswordResult(users, token, f.password,
                                               f.passwordConfirm, salt, now)
                  IN  /\ r.resp.kind = "error" /\ r.resp.status = 400
                      /\ r.resp.token = NoToken
                      /\ r.users = users

\* an inactive identity presents a token that verifies, while the secret
\* of a forgotPassword it made earlier is still inside its window
C13_Witness ==
    /\ resp.op = "protect"
    /\ resp.message = UserGone
    /\ held.id \in DOMAIN users
    /\ users[held.id].active = FALSE
    /\ jwtVerify(held, now) = "ok"
    /\ issued.sent
    /\ users[held.id].passwordResetToken = sha256(issued.secret)
    /\ users[held.id].passwordResetExpires > now

====
